---- MODULE Spec2Model ----
(***************************************************************************)
(* Model of the aa-bundler mempool store                                   *)
(*   crates/primitives/src/user_operation.rs  (UserOperation, hash)        *)
(*   crates/uopool/src/database/mempool.rs    (DatabaseMempool)            *)
(*                                                                         *)
(* Byte strings (Bytes, encoded keys and values, digests) are sequences of *)
(* naturals.  A table of the environment is the set of its <<key, value>>  *)
(* entries; cursors walk a table in (key, value) order.                    *)
(***************************************************************************)
EXTENDS Integers, Sequences, FiniteSets, TLC

VARIABLES db, call, watched, tx, pc, pre, args, codec, conc, read, txlog

vars == <<db, call, watched, tx, pc, pre, args, codec, conc, read, txlog>>

(***************************************************************************)
(* Bounds of the exploration                                               *)
(***************************************************************************)
\* length of the record sequence handed to set_code_hashes
MaxCodeHashes == 2

Senders == {0, 1}
Nonces == {0, 1}
Fees == {1, 2}
Signatures == {<<1>>, <<2>>}
EntryPoints == {1, 2}
ChainIds == {1}
CodeAddresses == {1, 2}
CodeDigests == {5}

(***************************************************************************)
(* Byte strings                                                            *)
(***************************************************************************)
Min(a, b) == IF a <= b THEN a ELSE b

\* lexicographic order of byte strings, the order of keys and of duplicate
\* values inside the storage engine
LexLess(a, b) ==
    \E i \in 1..(Min(Len(a), Len(b)) + 1) :
        /\ \A j \in 1..(i - 1) : a[j] = b[j]
        /\ \/ i > Len(a) /\ i <= Len(b)
           \/ i <= Len(a) /\ i <= Len(b) /\ a[i] < b[i]

LexLeq(a, b) == a = b \/ LexLess(a, b)

\* a length word followed by the bytes
LenPrefixed(b) == <<Len(b)>> \o b

\* keccak256 as an ideal (collision-free) hash: the digest of x is
\* represented by x itself, length-delimited
keccak256(x) == LenPrefixed(x)

(***************************************************************************)
(* UserOperation and its identifier                                        *)
(***************************************************************************)
UserOperation ==
    [sender : Senders, nonce : Nonces, init_code : {<<>>}, call_data : {<<>>},
     call_gas_limit : {0}, verification_gas_limit : {0},
     pre_verification_gas : {0}, max_fee_per_gas : {0},
     max_priority_fee_per_gas : Fees, paymaster_and_data : {<<>>},
     signature : Signatures]

\* From<UserOperation> for UserOperationPacked: the three byte fields are
\* replaced by their digest, the signature is dropped
UserOperationPacked(value) ==
    [sender |-> value.sender,
     nonce |-> value.nonce,
     init_code |-> keccak256(value.init_code),
     call_data |-> keccak256(value.call_data),
     call_gas_limit |-> value.call_gas_limit,
     verification_gas_limit |-> value.verification_gas_limit,
     pre_verification_gas |-> value.pre_verification_gas,
     max_fee_per_gas |-> value.max_fee_per_gas,
     max_priority_fee_per_gas |-> value.max_priority_fee_per_gas,
     paymaster_and_data |-> keccak256(value.paymaster_and_data)]

\* one ABI word: the 32 bytes, big-endian, of a value below 2^31 (every
\* value of the model is; the upper 28 bytes are zero)
WordBytes(v) ==
    [i \in 1..32 |-> IF i < 29 THEN 0 ELSE (v \div 256 ^ (32 - i)) % 256]

\* the payload of a dynamic field: the length word, then the bytes padded
\* with zeros to a multiple of 32
EncodeBytes(b) ==
    WordBytes(Len(b)) \o b
    \o [i \in 1..((((Len(b) + 31) \div 32) * 32) - Len(b)) |-> 0]

\* the payload without the padding
EncodeBytesUnpadded(b) == WordBytes(Len(b)) \o b

\* the encoding of the eleven fields as one tuple: eleven head words, a
\* static field in place and a dynamic field as the offset of its payload
\* from the start, then the four payloads in field order
EncodeTuple(o, tails) ==
    LET off1 == 11 * 32
        off2 == off1 + Len(tails[1])
        off3 == off2 + Len(tails[2])
        off4 == off3 + Len(tails[3])
    IN  WordBytes(o.sender) \o WordBytes(o.nonce)
        \o WordBytes(off1) \o WordBytes(off2)
        \o WordBytes(o.call_gas_limit) \o WordBytes(o.verification_gas_limit)
        \o WordBytes(o.pre_verification_gas) \o WordBytes(o.max_fee_per_gas)
        \o WordBytes(o.max_priority_fee_per_gas)
        \o WordBytes(off3) \o WordBytes(off4)
        \o tails[1] \o tails[2] \o tails[3] \o tails[4]

\* a pack whose payloads are not padded
pack_unpadded(o) ==
    EncodeTuple(o, <<EncodeBytesUnpadded(o.init_code),
                     EncodeBytesUnpadded(o.call_data),
                     EncodeBytesUnpadded(o.paymaster_and_data),
                     EncodeBytesUnpadded(o.signature)>>)

\* UserOperation::pack
pack(o) ==
    EncodeTuple(o, <<EncodeBytes(o.init_code), EncodeBytes(o.call_data),
                     EncodeBytes(o.paymaster_and_data), EncodeBytes(o.signature)>>)

\* a packing that carries the digest of the signature as an eleventh word
pack_with_signature(o) ==
    LET p == UserOperationPacked(o)
    IN  <<p.sender, p.nonce>> \o p.init_code \o p.call_data
        \o <<p.call_gas_limit, p.verification_gas_limit,
             p.pre_verification_gas, p.max_fee_per_gas,
             p.max_priority_fee_per_gas>>
        \o p.paymaster_and_data \o keccak256(o.signature)

\* encoding of the all-static packed tuple: its ten words in field order
pack_for_signature(o) ==
    LET p == UserOperationPacked(o)
    IN  <<p.sender, p.nonce>> \o p.init_code \o p.call_data
        \o <<p.call_gas_limit, p.verification_gas_limit,
             p.pre_verification_gas, p.max_fee_per_gas,
             p.max_priority_fee_per_gas>>
        \o p.paymaster_and_data

\* an identifier that digests the chain id before the entry point
hash_chain_first(o, entry_point, chain_id) ==
    keccak256(keccak256(pack_for_signature(o)) \o <<chain_id>> \o <<entry_point>>)

\* UserOperation::hash
hash(o, entry_point, chain_id) ==
    keccak256(keccak256(pack_for_signature(o)) \o <<entry_point>> \o <<chain_id>>)

(***************************************************************************)
(* Key/value adapters (database/utils.rs): the byte encodings under which  *)
(* the domain types are stored, and their decoders                         *)
(***************************************************************************)
WrapAddress(a) == <<a>>

WrapUserOperationHash(h) == h

\* the operation record: fixed words in place, byte fields length-prefixed
WrapUserOperation(o) ==
    <<o.sender, o.nonce>> \o LenPrefixed(o.init_code) \o LenPrefixed(o.call_data)
    \o <<o.call_gas_limit, o.verification_gas_limit, o.pre_verification_gas,
         o.max_fee_per_gas, o.max_priority_fee_per_gas>>
    \o LenPrefixed(o.paymaster_and_data) \o LenPrefixed(o.signature)

UnwrapUserOperation(b) ==
    LET i1 == 3
        i2 == i1 + b[i1] + 1
        i3 == i2 + b[i2] + 1
        i4 == i3 + 5
        i5 == i4 + b[i4] + 1
    IN  [sender |-> b[1],
         nonce |-> b[2],
         init_code |-> SubSeq(b, i1 + 1, i1 + b[i1]),
         call_data |-> SubSeq(b, i2 + 1, i2 + b[i2]),
         call_gas_limit |-> b[i3],
         verification_gas_limit |-> b[i3 + 1],
         pre_verification_gas |-> b[i3 + 2],
         max_fee_per_gas |-> b[i3 + 3],
         max_priority_fee_per_gas |-> b[i3 + 4],
         paymaster_and_data |-> SubSeq(b, i4 + 1, i4 + b[i4]),
         signature |-> SubSeq(b, i5 + 1, i5 + b[i5])]

CodeHash == [address : CodeAddresses, hash : CodeDigests]

WrapCodeHash(ch) == <<ch.address, ch.hash>>

UnwrapCodeHash(b) == [address |-> b[1], hash |-> b[2]]

(***************************************************************************)
(* The storage engine: three tables, transactions, cursors                 *)
(***************************************************************************)
\* TABLES: the table type each table is created with
TABLES ==
    [UserOperationDB |-> "Table",
     SenderUserOperationDB |-> "DupSort",
     CodeHashDB |-> "DupSort"]

EmptyTables ==
    [UserOperationDB |-> {}, SenderUserOperationDB |-> {}, CodeHashDB |-> {}]

None == <<>>
Some(v) == <<v>>

EntryLess(e, f) ==
    \/ LexLess(e[1], f[1])
    \/ e[1] = f[1] /\ LexLess(e[2], f[2])

\* the entries of S in cursor order
RECURSIVE InOrder(_)
InOrder(S) ==
    IF S = {} THEN <<>>
    ELSE LET m == CHOOSE e \in S : \A f \in S \ {e} : EntryLess(e, f)
         IN  <<m>> \o InOrder(S \ {m})

\* tx.get: the value of a key, for a DupSort table its first duplicate
tx_get(t, table, key) ==
    LET es == {e \in t[table] : e[1] = key}
    IN  IF es = {} THEN None ELSE Some(InOrder(es)[1][2])

\* tx.put that keeps the entry a plain table already holds under the key
tx_put_append(t, table, key, value) ==
    [t EXCEPT ![table] = @ \cup {<<key, value>>}]

\* tx.put (upsert): a plain table holds one value per key, a DupSort table
\* the sorted set of the values put under the key
tx_put(t, table, key, value) ==
    IF TABLES[table] = "Table"
    THEN [t EXCEPT ![table] = {e \in @ : e[1] # key} \cup {<<key, value>>}]
    ELSE [t EXCEPT ![table] = @ \cup {<<key, value>>}]

\* tx.delete: without a value every entry of the key; with a value, in a
\* DupSort table that duplicate only
tx_delete(t, table, key, value) ==
    IF value = None \/ TABLES[table] = "Table"
    THEN [t EXCEPT ![table] = {e \in @ : e[1] # key}]
    ELSE [t EXCEPT ![table] = @ \ {<<key, value[1]>>}]

tx_clear(t, table) == [t EXCEPT ![table] = {}]

\* cursor.walk(Some(start_key)): every entry from start_key on
walk(t, table, start_key) ==
    InOrder({e \in t[table] : LexLeq(start_key, e[1])})

\* cursor.walk_dup(Some(key), Some(subkey)): the duplicates of key from the
\* first value not below subkey on
walk_dup(t, table, key, subkey) ==
    InOrder({e \in t[table] : e[1] = key /\ LexLeq(subkey, e[2])})

\* Address::default() and WrapUserOperationHash::default() as stored bytes
DefaultAddress == WrapAddress(0)
DefaultHash == WrapUserOperationHash(<<0>>)

(***************************************************************************)
(* Mempool lookups, on the committed tables t                              *)
(***************************************************************************)
get(t, user_operation_hash) ==
    LET res == tx_get(t, "UserOperationDB", WrapUserOperationHash(user_operation_hash))
    IN  IF res = None THEN None ELSE Some(UnwrapUserOperation(res[1]))

get_all_by_sender(t, sender) ==
    LET w == walk_dup(t, "SenderUserOperationDB", WrapAddress(sender), DefaultAddress)
    IN  [i \in 1..Len(w) |-> UnwrapUserOperation(w[i][2])]

\* a count over walk instead of walk_dup: it runs on into the next senders
get_number_by_sender_walk(t, sender) ==
    Len(walk(t, "SenderUserOperationDB", WrapAddress(sender)))

get_number_by_sender(t, sender) ==
    Len(walk_dup(t, "SenderUserOperationDB", WrapAddress(sender), DefaultAddress))

\* a has_code_hashes that looks the identifier up in the primary table
has_code_hashes_primary(t, user_operation_hash) ==
    tx_get(t, "UserOperationDB", WrapUserOperationHash(user_operation_hash)) # None

has_code_hashes(t, user_operation_hash) ==
    tx_get(t, "CodeHashDB", WrapUserOperationHash(user_operation_hash)) # None

get_code_hashes(t, user_operation_hash) ==
    LET w == walk_dup(t, "CodeHashDB", WrapUserOperationHash(user_operation_hash),
                      DefaultAddress)
    IN  [i \in 1..Len(w) |-> UnwrapCodeHash(w[i][2])]

\* the comparator with the fee comparison the other way round
sort_cmp_less_asc(a, b) ==
    IF a.max_priority_fee_per_gas # b.max_priority_fee_per_gas
    THEN a.max_priority_fee_per_gas < b.max_priority_fee_per_gas
    ELSE a.nonce < b.nonce

\* the comparator of get_sorted: a sorts before b
sort_cmp_less(a, b) ==
    IF a.max_priority_fee_per_gas # b.max_priority_fee_per_gas
    THEN b.max_priority_fee_per_gas < a.max_priority_fee_per_gas
    ELSE a.nonce < b.nonce

\* an ordering pass that keeps one operation of those that compare equal
RECURSIVE sort_by_unique(_)
sort_by_unique(s) ==
    IF s = <<>> THEN <<>>
    ELSE LET x == s[Len(s)]
             r == sort_by_unique(SubSeq(s, 1, Len(s) - 1))
             later == {i \in 1..Len(r) : sort_cmp_less(x, r[i])}
             k == IF later = {} THEN Len(r) + 1
                  ELSE CHOOSE i \in later : \A j \in later : i <= j
         IN  IF \E i \in 1..Len(r) :
                    ~sort_cmp_less(x, r[i]) /\ ~sort_cmp_less(r[i], x)
             THEN r
             ELSE SubSeq(r, 1, k - 1) \o <<x>> \o SubSeq(r, k, Len(r))

\* Vec::sort_by: a stable sort
RECURSIVE sort_by(_)
sort_by(s) ==
    IF s = <<>> THEN <<>>
    ELSE LET x == s[Len(s)]
             r == sort_by(SubSeq(s, 1, Len(s) - 1))
             later == {i \in 1..Len(r) : sort_cmp_less(x, r[i])}
             k == IF later = {} THEN Len(r) + 1
                  ELSE CHOOSE i \in later : \A j \in later : i <= j
         IN  SubSeq(r, 1, k - 1) \o <<x>> \o SubSeq(r, k, Len(r))

get_all(t) ==
    LET w == walk(t, "UserOperationDB", DefaultHash)
    IN  [i \in 1..Len(w) |-> UnwrapUserOperation(w[i][2])]

get_sorted(t) == sort_by(get_all(t))

(***************************************************************************)
(* Write transactions.  A handler's body is the sequence of statements it  *)
(* issues on its transaction; a transaction works on its own view of the   *)
(* tables, commit publishes the view, dropping the transaction discards it *)
(***************************************************************************)
GetValue(table, key) ==
    [f |-> "get", table |-> table, key |-> key, value |-> None]
Put(table, key, value) ==
    [f |-> "put", table |-> table, key |-> key, value |-> Some(value)]
Delete(table, key, value) ==
    [f |-> "delete", table |-> table, key |-> key, value |-> value]
ClearTable(table) ==
    [f |-> "clear", table |-> table, key |-> <<>>, value |-> None]
Commit ==
    [f |-> "commit", table |-> "UserOperationDB", key |-> <<>>, value |-> None]
\* tx.cursor_read / tx.cursor_dup_read
CursorRead(table) ==
    [f |-> "cursor", table |-> table, key |-> <<>>, value |-> None]
\* cursor.walk / cursor.walk_dup: the positioning read
Walk(table, key) ==
    [f |-> "walk", table |-> table, key |-> key, value |-> None]
\* one item that the walker yields: a read and a decode
Item(table, key) ==
    [f |-> "item", table |-> table, key |-> key, value |-> None]

\* one statement, on s = [view |-> the transaction's tables, db |-> the
\* committed tables]
Exec(s, st) ==
    CASE st.f \in {"get", "cursor", "walk", "item"} -> s
      [] st.f = "put" ->
            [s EXCEPT !.view = tx_put(@, st.table, st.key, st.value[1])]
      [] st.f = "delete" ->
            [s EXCEPT !.view = tx_delete(@, st.table, st.key, st.value)]
      [] st.f = "clear" ->
            [s EXCEPT !.view = tx_clear(@, st.table)]
      [] st.f = "commit" ->
            [s EXCEPT !.db = s.view]

RECURSIVE ExecFrom(_, _, _)
ExecFrom(s, stmts, i) ==
    IF i > Len(stmts) THEN s ELSE ExecFrom(Exec(s, stmts[i]), stmts, i + 1)

\* the committed tables after a transaction begun on t ran stmts to the end
RunTx(t, stmts) == ExecFrom([view |-> t, db |-> t], stmts, 1).db

\* add that stores the operation without its signature in the primary table
add_txn_unsigned(user_operation, entry_point, chain_id) ==
    LET h == hash(user_operation, entry_point, chain_id)
        unsigned == [user_operation EXCEPT !.signature = <<>>]
    IN  <<Put("UserOperationDB", WrapUserOperationHash(h), WrapUserOperation(unsigned)),
          Put("SenderUserOperationDB", WrapAddress(user_operation.sender),
              WrapUserOperation(user_operation)),
          Commit>>

\* add with a transaction of its own for each of the two puts
add_txn_split(user_operation, entry_point, chain_id) ==
    LET h == hash(user_operation, entry_point, chain_id)
        wrap_user_operation == WrapUserOperation(user_operation)
    IN  <<Put("UserOperationDB", WrapUserOperationHash(h), wrap_user_operation),
          Commit,
          Put("SenderUserOperationDB", WrapAddress(user_operation.sender),
              wrap_user_operation),
          Commit>>

\* DatabaseMempool::add
add_txn(user_operation, entry_point, chain_id) ==
    LET h == hash(user_operation, entry_point, chain_id)
        wrap_user_operation_hash == WrapUserOperationHash(h)
        wrap_user_operation == WrapUserOperation(user_operation)
    IN  <<Put("UserOperationDB", wrap_user_operation_hash, wrap_user_operation),
          Put("SenderUserOperationDB", WrapAddress(user_operation.sender),
              wrap_user_operation),
          Commit>>

\* set_code_hashes that clears the code-hash table instead of deleting the
\* records of the identifier
set_code_hashes_txn_clear(t, user_operation_hash, code_hashes) ==
    <<GetValue("CodeHashDB", WrapUserOperationHash(user_operation_hash)),
      ClearTable("CodeHashDB")>>
    \o [i \in 1..Len(code_hashes) |->
           Put("CodeHashDB", WrapUserOperationHash(user_operation_hash),
               WrapCodeHash(code_hashes[i]))]
    \o <<Commit>>

\* set_code_hashes without the delete of the records already stored
set_code_hashes_txn_append(t, user_operation_hash, code_hashes) ==
    [i \in 1..Len(code_hashes) |->
        Put("CodeHashDB", WrapUserOperationHash(user_operation_hash),
            WrapCodeHash(code_hashes[i]))]
    \o <<Commit>>

\* DatabaseMempool::set_code_hashes, on a transaction begun on t
set_code_hashes_txn(t, user_operation_hash, code_hashes) ==
    LET wrap_user_operation_hash == WrapUserOperationHash(user_operation_hash)
        res == tx_get(t, "CodeHashDB", wrap_user_operation_hash)
    IN  <<GetValue("CodeHashDB", wrap_user_operation_hash)>>
        \o (IF res # None
            THEN <<Delete("CodeHashDB", wrap_user_operation_hash, None)>>
            ELSE <<>>)
        \o [i \in 1..Len(code_hashes) |->
               Put("CodeHashDB", wrap_user_operation_hash,
                   WrapCodeHash(code_hashes[i]))]
        \o <<Commit>>

\* remove that leaves the code hashes of the identifier in place
remove_txn_keep_codes(t, user_operation_hash) ==
    LET wrap_user_operation_hash == WrapUserOperationHash(user_operation_hash)
        res == tx_get(t, "UserOperationDB", wrap_user_operation_hash)
    IN  <<GetValue("UserOperationDB", wrap_user_operation_hash)>>
        \o (IF res # None
            THEN LET user_op == UnwrapUserOperation(res[1])
                 IN  <<Delete("UserOperationDB", wrap_user_operation_hash, None),
                       Delete("SenderUserOperationDB", WrapAddress(user_op.sender),
                              Some(WrapUserOperation(user_op))),
                       Commit>>
            ELSE <<>>)

\* remove with a transaction of its own for each of the three deletes
remove_txn_split(t, user_operation_hash) ==
    LET wrap_user_operation_hash == WrapUserOperationHash(user_operation_hash)
        res == tx_get(t, "UserOperationDB", wrap_user_operation_hash)
    IN  <<GetValue("UserOperationDB", wrap_user_operation_hash)>>
        \o (IF res # None
            THEN LET user_op == UnwrapUserOperation(res[1])
                 IN  <<Delete("UserOperationDB", wrap_user_operation_hash, None),
                       Commit,
                       Delete("SenderUserOperationDB", WrapAddress(user_op.sender),
                              Some(WrapUserOperation(user_op))),
                       Commit,
                       Delete("CodeHashDB", wrap_user_operation_hash, None),
                       Commit>>
            ELSE <<>>)

\* remove that deletes the code hashes before it looks the identifier up
remove_txn_eager(t, user_operation_hash) ==
    LET wrap_user_operation_hash == WrapUserOperationHash(user_operation_hash)
        res == tx_get(t, "UserOperationDB", wrap_user_operation_hash)
    IN  <<Delete("CodeHashDB", wrap_user_operation_hash, None), Commit>>
        \o (IF res # None
            THEN LET user_op == UnwrapUserOperation(res[1])
                 IN  <<Delete("UserOperationDB", wrap_user_operation_hash, None),
                       Delete("SenderUserOperationDB", WrapAddress(user_op.sender),
                              Some(WrapUserOperation(user_op))),
                       Commit>>
            ELSE <<>>)

\* DatabaseMempool::remove, on a transaction begun on t
remove_txn(t, user_operation_hash) ==
    LET wrap_user_operation_hash == WrapUserOperationHash(user_operation_hash)
        res == tx_get(t, "UserOperationDB", wrap_user_operation_hash)
    IN  <<GetValue("UserOperationDB", wrap_user_operation_hash)>>
        \o (IF res # None
            THEN LET user_op == UnwrapUserOperation(res[1])
                 IN  <<Delete("UserOperationDB", wrap_user_operation_hash, None),
                       Delete("SenderUserOperationDB", WrapAddress(user_op.sender),
                              Some(WrapUserOperation(user_op))),
                       Delete("CodeHashDB", wrap_user_operation_hash, None),
                       Commit>>
            ELSE <<>>)

remove_result(t, user_operation_hash) ==
    IF tx_get(t, "UserOperationDB", WrapUserOperationHash(user_operation_hash)) # None
    THEN "Ok"
    ELSE "NotFound"

\* DatabaseMempool::clear
clear_txn ==
    <<ClearTable("UserOperationDB"), ClearTable("SenderUserOperationDB"), Commit>>

(***************************************************************************)
(* The bodies of the lookups, on a read-only transaction begun on t        *)
(***************************************************************************)
get_txn(user_operation_hash) ==
    <<GetValue("UserOperationDB", WrapUserOperationHash(user_operation_hash)),
      Commit>>

has_code_hashes_txn(user_operation_hash) ==
    <<GetValue("CodeHashDB", WrapUserOperationHash(user_operation_hash)), Commit>>

\* a cursor, the walk and the items it yields
walk_dup_stmts(t, table, key) ==
    <<CursorRead(table), Walk(table, key)>>
    \o [i \in 1..Len(walk_dup(t, table, key, DefaultAddress)) |-> Item(table, key)]

walk_stmts(t, table, start_key) ==
    <<CursorRead(table), Walk(table, start_key)>>
    \o [i \in 1..Len(walk(t, table, start_key)) |-> Item(table, start_key)]

get_all_by_sender_txn(t, sender) ==
    walk_dup_stmts(t, "SenderUserOperationDB", WrapAddress(sender)) \o <<Commit>>

get_number_by_sender_txn(t, sender) ==
    walk_dup_stmts(t, "SenderUserOperationDB", WrapAddress(sender)) \o <<Commit>>

get_code_hashes_txn(t, user_operation_hash) ==
    walk_dup_stmts(t, "CodeHashDB", WrapUserOperationHash(user_operation_hash))
    \o <<Commit>>

\* get_sorted returns without a commit
get_sorted_txn(t) == walk_stmts(t, "UserOperationDB", DefaultHash)

get_all_txn(t) == walk_stmts(t, "UserOperationDB", DefaultHash) \o <<Commit>>

(***************************************************************************)
(* Inputs                                                                  *)
(***************************************************************************)
\* operations that differ in sender and signature
PoolOps == {o \in UserOperation : o.nonce = 0 /\ o.max_priority_fee_per_gas = 1}

\* operations that differ in sender, nonce and fee
SortOps == {o \in UserOperation : o.signature = <<1>>}

\* operations that differ in signature
SignedOps == {o \in PoolOps : o.sender = 0}

Hashes(ops, eps) == {hash(o, ep, c) : o \in ops, ep \in eps, c \in ChainIds}

PoolHashes == Hashes(PoolOps, EntryPoints)
PoolCodeKeys == Hashes(SignedOps, {1})
SortHashes == Hashes(SortOps, {1})
SignedHashes == Hashes(SignedOps, EntryPoints)
AllHashes == Hashes(UserOperation, EntryPoints)

RECURSIVE SeqsUpTo(_, _)
SeqsUpTo(S, n) ==
    IF n = 0 THEN {<<>>}
    ELSE LET shorter == SeqsUpTo(S, n - 1)
         IN  shorter \cup {Append(q, x) : q \in shorter, x \in S}

CodeHashes == SeqsUpTo(CodeHash, MaxCodeHashes)

Range(q) == {q[i] : i \in 1..Len(q)}

(***************************************************************************)
(* The mempool as a state machine: one action per mutating call, the       *)
(* backend never failing.  call is the last call and its result.           *)
(***************************************************************************)
NoCall == [op |-> "none", ret |-> "Ok"]

NoTx == [view |-> EmptyTables, stmts |-> <<>>, ret |-> "Ok"]

NoArgs == [uo |-> None, hash |-> <<>>, code_hashes |-> <<>>]

NoCodec ==
    [uo |-> None, entry_point |-> 0, chain_id |-> 0, hash |-> None,
     packed |-> None]

NoThreads == <<>>

\* the value of a lookup: a sequence (an Option for get), a count or a flag
NoRead == [seq |-> <<>>, num |-> 0, flag |-> FALSE]

NoTxLog == [opened |-> <<>>, commits |-> 0, failed |-> FALSE, wrote |-> FALSE]

Init ==
    /\ db = EmptyTables
    /\ call = NoCall
    /\ watched = None
    /\ pre = EmptyTables
    /\ args = NoArgs
    /\ tx = NoTx
    /\ pc = 0
    /\ codec = NoCodec
    /\ conc = NoThreads
    /\ read = NoRead
    /\ txlog = NoTxLog

add(user_operation, entry_point, chain_id) ==
    /\ db' = RunTx(db, add_txn(user_operation, entry_point, chain_id))
    /\ call' = [op |-> "add", ret |-> "Ok"]
    /\ UNCHANGED <<tx, pc, codec, conc, read, txlog>>

set_code_hashes(user_operation_hash, code_hashes) ==
    /\ db' = RunTx(db, set_code_hashes_txn(db, user_operation_hash, code_hashes))
    /\ call' = [op |-> "set_code_hashes", ret |-> "Ok"]
    /\ UNCHANGED <<tx, pc, codec, conc, read, txlog>>

remove(user_operation_hash) ==
    /\ db' = RunTx(db, remove_txn(db, user_operation_hash))
    /\ call' = [op |-> "remove", ret |-> remove_result(db, user_operation_hash)]
    /\ UNCHANGED <<tx, pc, codec, conc, read, txlog>>

clear ==
    /\ db' = RunTx(db, clear_txn)
    /\ call' = [op |-> "clear", ret |-> "Ok"]
    /\ UNCHANGED <<tx, pc, codec, conc, read, txlog>>

\* the history variables are not kept
NoHistory == UNCHANGED <<watched, pre, args>>

\* operations that differ in sender and signature, under two entry points;
\* code hashes for the identifier of the first sender under the first entry
\* point
Next ==
    \/ \E o \in PoolOps, ep \in EntryPoints, c \in ChainIds :
           add(o, ep, c) /\ NoHistory
    \/ \E h \in PoolCodeKeys, chs \in CodeHashes :
           set_code_hashes(h, chs) /\ NoHistory
    \/ \E h \in PoolHashes : remove(h) /\ NoHistory
    \/ clear /\ NoHistory

Spec == Init /\ [][Next]_vars

\* operations that differ in sender, nonce and fee, under one entry point
NextSort ==
    \/ \E o \in SortOps, c \in ChainIds : add(o, 1, c) /\ NoHistory
    \/ \E h \in SortHashes : remove(h) /\ NoHistory
    \/ clear /\ NoHistory

SpecSort == Init /\ [][NextSort]_vars

\* as NextSort, and the operations of the first sender with the first
\* nonce under a second entry point too, so that one operation can be
\* stored under two identifiers
SortTwiceOps == {o \in SortOps : o.sender = 0 /\ o.nonce = 0}
SortTwiceHashes == Hashes(SortTwiceOps, {2})

NextSortTwice ==
    \/ \E o \in SortOps, c \in ChainIds : add(o, 1, c) /\ NoHistory
    \/ \E o \in SortTwiceOps, c \in ChainIds : add(o, 2, c) /\ NoHistory
    \/ \E h \in SortHashes \cup SortTwiceHashes : remove(h) /\ NoHistory
    \/ clear /\ NoHistory

SpecSortTwice == Init /\ [][NextSortTwice]_vars

\* as Next without code hashes; watched is one of the (operation,
\* identifier) pairs that add has returned so far
NextWatch ==
    \/ \E o \in PoolOps, ep \in EntryPoints, c \in ChainIds :
           /\ add(o, ep, c)
           /\ watched' \in {watched, <<o, hash(o, ep, c)>>}
           /\ UNCHANGED <<pre, args>>
    \/ \E h \in PoolHashes : remove(h) /\ NoHistory
    \/ clear /\ NoHistory

SpecWatch == Init /\ [][NextWatch]_vars

\* operations of one sender that differ in signature, under two entry
\* points; pre is the committed tables when the last call began, args the
\* arguments of the last call (for add: the operation and the identifier
\* returned)
NextPre ==
    /\ pre' = db
    /\ UNCHANGED watched
    /\ \/ \E o \in SignedOps, ep \in EntryPoints, c \in ChainIds :
              /\ add(o, ep, c)
              /\ args' = [NoArgs EXCEPT !.uo = Some(o), !.hash = hash(o, ep, c)]
       \/ \E h \in SignedHashes, chs \in CodeHashes :
              /\ set_code_hashes(h, chs)
              /\ args' = [NoArgs EXCEPT !.hash = h, !.code_hashes = chs]
       \/ \E h \in SignedHashes :
              /\ remove(h)
              /\ args' = [NoArgs EXCEPT !.hash = h]
       \/ clear /\ args' = NoArgs

SpecPre == Init /\ [][NextPre]_vars

(***************************************************************************)
(* The mempool statement by statement: a call begins a write transaction,  *)
(* issues the statements of its body one at a time and returns.  Every     *)
(* statement can fail, and the process can crash while a call runs.  tx is *)
(* the transaction of the running call with the result the call returns    *)
(* when its body ends, pc the statement it is at (0: no call runs), pre    *)
(* the committed tables when the call began.  txlog records what the call  *)
(* did with transactions: those it opened, the commits it made, whether a  *)
(* statement changed the transaction's view and whether a step failed.     *)
(***************************************************************************)
Mutators == {"add", "set_code_hashes", "remove", "clear"}

\* the lookups that end in unwrap_or_else(|_| vec![]) or unwrap_or(0)
Degrading ==
    {"get_all_by_sender", "get_number_by_sender", "get_code_hashes", "get_all"}

Lookups == Degrading \cup {"get", "has_code_hashes", "get_sorted"}

\* what the caller gets when a step fails: clear panics through expect,
\* a degrading lookup returns its empty value, every other handler returns
\* DBError::DBInternalError
FailureResult(op) ==
    CASE op = "clear" -> "Panic"
      [] op \in Degrading -> "Ok"
      [] OTHER -> "DBInternalError"

\* env.tx_mut() at the head of a handler
tx_mut(op, stmts, ret) ==
    /\ pc = 0
    /\ tx' = [view |-> db, stmts |-> stmts, ret |-> ret]
    /\ pc' = 1
    /\ pre' = db
    /\ call' = [op |-> op, ret |-> "Running"]
    /\ txlog' = [NoTxLog EXCEPT !.opened = <<"RW">>]
    /\ read' = NoRead
    /\ UNCHANGED <<db, watched, args, codec, conc>>

\* env.tx_mut()? returning the backend error
tx_mut_fails(op) ==
    /\ pc = 0
    /\ call' = [op |-> op, ret |-> FailureResult(op)]
    /\ pre' = db
    /\ txlog' = [NoTxLog EXCEPT !.failed = TRUE]
    /\ read' = NoRead
    /\ UNCHANGED <<db, tx, pc, watched, args, codec, conc>>

\* the next statement of the running call
tx_step ==
    /\ pc \in 1..Len(tx.stmts)
    /\ LET s == Exec([view |-> tx.view, db |-> db], tx.stmts[pc])
       IN  /\ tx' = [tx EXCEPT !.view = s.view]
           /\ db' = s.db
           /\ txlog' = [txlog EXCEPT
                           !.commits = IF tx.stmts[pc].f = "commit"
                                       THEN @ + 1 ELSE @,
                           !.wrote = @ \/ s.view # tx.view]
    /\ pc' = pc + 1
    /\ UNCHANGED <<call, pre, watched, args, codec, conc, read>>

\* a handler that answers a failing statement by beginning its body again
\* on a new transaction
tx_step_retries ==
    /\ pc \in 1..Len(tx.stmts)
    /\ tx' = [tx EXCEPT !.view = db]
    /\ pc' = 1
    /\ txlog' = [txlog EXCEPT !.failed = TRUE, !.opened = Append(@, "RW")]
    /\ UNCHANGED <<db, call, pre, watched, args, codec, conc, read>>

\* the next statement fails: the ? operator returns the error, clear panics
\* on it, a degrading lookup returns its empty value; the transaction is
\* dropped uncommitted.  (An item of the walk that get_number_by_sender
\* counts is not followed by ?: see count_item_fails.)
tx_step_fails ==
    /\ pc \in 1..Len(tx.stmts)
    /\ ~(call.op = "get_number_by_sender" /\ tx.stmts[pc].f = "item")
    /\ call' = [call EXCEPT !.ret = FailureResult(call.op)]
    /\ read' = NoRead
    /\ tx' = NoTx
    /\ pc' = 0
    /\ txlog' = [txlog EXCEPT !.failed = TRUE]
    /\ UNCHANGED <<db, pre, watched, args, codec, conc>>

\* env.tx() at the head of a lookup; value is what the lookup returns when
\* its body runs through
tx_ro(op, stmts, value) ==
    /\ pc = 0
    /\ tx' = [view |-> db, stmts |-> stmts, ret |-> "Ok"]
    /\ pc' = 1
    /\ pre' = db
    /\ call' = [op |-> op, ret |-> "Running"]
    /\ txlog' = [NoTxLog EXCEPT !.opened = <<"RO">>]
    /\ read' = value
    /\ UNCHANGED <<db, watched, args, codec, conc>>

\* env.tx() returning the backend error
tx_ro_fails(op) ==
    /\ pc = 0
    /\ call' = [op |-> op, ret |-> FailureResult(op)]
    /\ pre' = db
    /\ txlog' = [NoTxLog EXCEPT !.failed = TRUE]
    /\ read' = NoRead
    /\ UNCHANGED <<db, tx, pc, watched, args, codec, conc>>

\* an item of the walk of get_number_by_sender is an error: count() counts
\* the item as it counts every other; the walk then goes on to the next
\* item or ends
count_item_fails ==
    /\ call.op = "get_number_by_sender"
    /\ pc \in 1..Len(tx.stmts)
    /\ tx.stmts[pc].f = "item"
    /\ txlog' = [txlog EXCEPT !.failed = TRUE]
    /\ \/ pc' = pc + 1 /\ UNCHANGED read
       \/ pc' = Len(tx.stmts) /\ read' = [read EXCEPT !.num = pc - 2]
    /\ UNCHANGED <<db, call, tx, pre, watched, args, codec, conc>>

\* the body is through: the handler returns and drops its transaction
tx_return ==
    /\ pc = Len(tx.stmts) + 1
    /\ call' = [call EXCEPT !.ret = tx.ret]
    /\ tx' = NoTx
    /\ pc' = 0
    /\ UNCHANGED <<db, pre, watched, args, codec, conc, read, txlog>>

\* the process dies while a call runs; the environment is opened again
crash ==
    /\ pc > 0
    /\ call' = [call EXCEPT !.ret = "Crash"]
    /\ tx' = NoTx
    /\ pc' = 0
    /\ UNCHANGED <<db, pre, watched, args, codec, conc, read, txlog>>

\* operations of one sender that differ in signature, under two entry points
NextTx ==
    \/ \E o \in SignedOps, ep \in EntryPoints, c \in ChainIds :
           tx_mut("add", add_txn(o, ep, c), "Ok")
    \/ \E h \in SignedHashes, chs \in CodeHashes :
           tx_mut("set_code_hashes", set_code_hashes_txn(db, h, chs), "Ok")
    \/ \E h \in SignedHashes :
           tx_mut("remove", remove_txn(db, h), remove_result(db, h))
    \/ tx_mut("clear", clear_txn, "Ok")
    \/ \E op \in {"add", "set_code_hashes", "remove", "clear"} : tx_mut_fails(op)
    \/ tx_step
    \/ tx_step_fails
    \/ tx_return
    \/ crash

SpecTx == Init /\ [][NextTx]_vars

\* every handler of the interface statement by statement, lookups included,
\* each step of which can fail; operations of one sender that differ in
\* signature, under two entry points, code hashes under one identifier
NextRead ==
    \/ \E o \in SignedOps, ep \in EntryPoints, c \in ChainIds :
           tx_mut("add", add_txn(o, ep, c), "Ok")
    \/ \E h \in PoolCodeKeys, chs \in CodeHashes :
           tx_mut("set_code_hashes", set_code_hashes_txn(db, h, chs), "Ok")
    \/ \E h \in SignedHashes :
           tx_mut("remove", remove_txn(db, h), remove_result(db, h))
    \/ tx_mut("clear", clear_txn, "Ok")
    \/ \E h \in SignedHashes :
           tx_ro("get", get_txn(h), [NoRead EXCEPT !.seq = get(db, h)])
    \/ \E s \in Senders :
           tx_ro("get_all_by_sender", get_all_by_sender_txn(db, s),
                 [NoRead EXCEPT !.seq = get_all_by_sender(db, s)])
    \/ \E s \in Senders :
           tx_ro("get_number_by_sender", get_number_by_sender_txn(db, s),
                 [NoRead EXCEPT !.num = get_number_by_sender(db, s)])
    \/ \E h \in PoolCodeKeys :
           tx_ro("has_code_hashes", has_code_hashes_txn(h),
                 [NoRead EXCEPT !.flag = has_code_hashes(db, h)])
    \/ \E h \in PoolCodeKeys :
           tx_ro("get_code_hashes", get_code_hashes_txn(db, h),
                 [NoRead EXCEPT !.seq = get_code_hashes(db, h)])
    \/ tx_ro("get_sorted", get_sorted_txn(db), [NoRead EXCEPT !.seq = get_sorted(db)])
    \/ tx_ro("get_all", get_all_txn(db), [NoRead EXCEPT !.seq = get_all(db)])
    \/ \E op \in Mutators : tx_mut_fails(op)
    \/ \E op \in Lookups : tx_ro_fails(op)
    \/ tx_step
    \/ tx_step_fails
    \/ count_item_fails
    \/ tx_return

SpecRead == Init /\ [][NextRead]_vars

(***************************************************************************)
(* Table creation.  DatabaseMempool::new opens the environment, in which   *)
(* no table exists yet; create_tables creates them; the handlers work on   *)
(* an environment that has its tables.  The tables of an environment are   *)
(* the domain of db.                                                       *)
(***************************************************************************)
NoTables == [table \in {} |-> {}]

\* a create_db that makes the table anew, dropping what it held
create_db_anew(t, table) ==
    [n \in DOMAIN t \cup {table} |-> IF n = table THEN {} ELSE t[n]]

\* tx.create_db(Some(table), flags): opens the table, creating it empty if
\* the environment does not have it
create_db(t, table) ==
    IF table \in DOMAIN t THEN t
    ELSE [n \in DOMAIN t \cup {table} |-> IF n = table THEN {} ELSE t[n]]

\* DatabaseMempool::create_tables: one create_db per entry of TABLES, on
\* one read-write transaction, then commit
create_tables ==
    /\ db' = create_db(create_db(create_db(db, "UserOperationDB"),
                                  "SenderUserOperationDB"),
                        "CodeHashDB")
    /\ call' = [op |-> "create_tables", ret |-> "Ok"]
    /\ UNCHANGED <<tx, pc, codec, conc, read, txlog>>

InitCreate ==
    /\ db = NoTables
    /\ call = NoCall
    /\ watched = None
    /\ pre = NoTables
    /\ args = NoArgs
    /\ tx = NoTx
    /\ pc = 0
    /\ codec = NoCodec
    /\ conc = NoThreads
    /\ read = NoRead
    /\ txlog = NoTxLog

\* operations of one sender that differ in signature, under two entry
\* points, code hashes under one identifier; pre is the committed tables
\* when the last call began
NextCreate ==
    /\ pre' = db
    /\ UNCHANGED <<watched, args>>
    /\ \/ create_tables
       \/ /\ DOMAIN db = DOMAIN TABLES
          /\ \/ \E o \in SignedOps, ep \in EntryPoints, c \in ChainIds :
                    add(o, ep, c)
             \/ \E h \in PoolCodeKeys, chs \in CodeHashes :
                    set_code_hashes(h, chs)
             \/ \E h \in SignedHashes : remove(h)
             \/ clear

SpecCreate == InitCreate /\ [][NextCreate]_vars

(***************************************************************************)
(* The identifier as a function of its inputs: codec holds the arguments   *)
(* of one call of UserOperation::hash and, once the call returned, the     *)
(* identifier.                                                             *)
(***************************************************************************)
HashChainIds == {1, 2}

\* operations that differ in sender, in the three byte fields that are
\* digested, in a fee word and in the signature
HashOps ==
    [sender : Senders, nonce : {0}, init_code : {<<>>, <<7>>},
     call_data : {<<>>, <<7>>}, call_gas_limit : {0},
     verification_gas_limit : {0}, pre_verification_gas : {0},
     max_fee_per_gas : {0, 1}, max_priority_fee_per_gas : {1},
     paymaster_and_data : {<<>>, <<7>>},
     signature : {<<>>, <<1>>, <<1, 2>>}]

InitHash ==
    /\ db = EmptyTables
    /\ call = NoCall
    /\ watched = None
    /\ pre = EmptyTables
    /\ args = NoArgs
    /\ tx = NoTx
    /\ pc = 0
    /\ conc = NoThreads
    /\ read = NoRead
    /\ txlog = NoTxLog
    /\ \E o \in HashOps, ep \in EntryPoints, c \in HashChainIds :
           codec = [uo |-> Some(o), entry_point |-> ep, chain_id |-> c,
                    hash |-> None, packed |-> None]

\* user_operation.hash(&entry_point, &chain_id)
hash_call ==
    /\ codec.uo # None
    /\ codec.hash = None
    /\ codec' = [codec EXCEPT
                    !.hash = Some(hash(codec.uo[1], codec.entry_point,
                                       codec.chain_id))]
    /\ UNCHANGED <<db, call, watched, tx, pc, pre, args, conc, read, txlog>>

NextHash == hash_call

SpecHash == InitHash /\ [][NextHash]_vars

(***************************************************************************)
(* Concurrent callers: each thread calls add once, on a handle of its own  *)
(* to the shared environment.  The environment grants one read-write       *)
(* transaction at a time; a reader's snapshot is the committed tables at   *)
(* the moment it begins.  conc[t] is the call of thread t.                 *)
(***************************************************************************)
Threads == {1, 2}

IdleThread ==
    [pc |-> 0, uo |-> None, entry_point |-> 0, view |-> EmptyTables,
     stmts |-> <<>>, ret |-> "Idle"]

InitConc ==
    /\ db = EmptyTables
    /\ call = NoCall
    /\ watched = None
    /\ pre = EmptyTables
    /\ args = NoArgs
    /\ tx = NoTx
    /\ pc = 0
    /\ codec = NoCodec
    /\ read = NoRead
    /\ txlog = NoTxLog
    /\ conc = [t \in Threads |-> IdleThread]

NoSequential == UNCHANGED <<call, watched, tx, pc, pre, args, codec, read, txlog>>

\* thread t calls add(o, ep, c): env.tx_mut() returns once no other
\* read-write transaction is open
conc_tx_mut(t, o, ep, c) ==
    /\ conc[t].ret = "Idle"
    /\ \A u \in Threads : conc[u].uo # Some(o)
    /\ \A u \in Threads : conc[u].pc = 0
    /\ conc' = [conc EXCEPT ![t] =
                    [pc |-> 1, uo |-> Some(o), entry_point |-> ep, view |-> db,
                     stmts |-> add_txn(o, ep, c), ret |-> "Running"]]
    /\ UNCHANGED db
    /\ NoSequential

\* the next statement of thread t's add
conc_step(t) ==
    /\ conc[t].pc \in 1..Len(conc[t].stmts)
    /\ LET s == Exec([view |-> conc[t].view, db |-> db],
                     conc[t].stmts[conc[t].pc])
       IN  /\ conc' = [conc EXCEPT ![t].view = s.view, ![t].pc = @ + 1]
           /\ db' = s.db
    /\ NoSequential

\* thread t's add returns Ok(hash)
conc_return(t) ==
    /\ conc[t].pc = Len(conc[t].stmts) + 1
    /\ conc' = [conc EXCEPT ![t].pc = 0, ![t].ret = "Ok"]
    /\ UNCHANGED db
    /\ NoSequential

NextConc ==
    \/ \E t \in Threads, o \in PoolOps, ep \in EntryPoints, c \in ChainIds :
           conc_tx_mut(t, o, ep, c)
    \/ \E t \in Threads : conc_step(t)
    \/ \E t \in Threads : conc_return(t)

SpecConc == InitConc /\ [][NextConc]_vars

(***************************************************************************)
(* The full encoding as a function of the operation: codec holds the       *)
(* operation of one call of UserOperation::pack and, once the call         *)
(* returned, the bytes.                                                    *)
(***************************************************************************)
\* n bytes, none of them zero
BytesOfLen(n) == [i \in 1..n |-> 1 + (i % 7)]

\* operations whose byte fields are empty, shorter than a word, a word, or
\* longer than a word, among them the first operation of the test
\* user_operation_pack
PackOps ==
    [sender : Senders, nonce : Nonces, init_code : {<<>>, BytesOfLen(1)},
     call_data : {<<>>, BytesOfLen(33)}, call_gas_limit : {0},
     verification_gas_limit : {0, 100000}, pre_verification_gas : {21000},
     max_fee_per_gas : {0}, max_priority_fee_per_gas : {1000000000},
     paymaster_and_data : {<<>>, BytesOfLen(32)},
     signature : {<<>>, BytesOfLen(31), BytesOfLen(64), BytesOfLen(65)}]

InitPack ==
    /\ db = EmptyTables
    /\ call = NoCall
    /\ watched = None
    /\ pre = EmptyTables
    /\ args = NoArgs
    /\ tx = NoTx
    /\ pc = 0
    /\ conc = NoThreads
    /\ read = NoRead
    /\ txlog = NoTxLog
    /\ \E o \in PackOps : codec = [NoCodec EXCEPT !.uo = Some(o)]

\* user_operation.pack()
pack_call ==
    /\ codec.uo # None
    /\ codec.packed = None
    /\ codec' = [codec EXCEPT !.packed = Some(pack(codec.uo[1]))]
    /\ UNCHANGED <<db, call, watched, tx, pc, pre, args, conc, read, txlog>>

NextPack == pack_call

SpecPack == InitPack /\ [][NextPack]_vars

(***************************************************************************)
(* Properties                                                              *)
(***************************************************************************)
\* C1: round trip - when add(o, ep, c) returns h, a get(h) that follows
\* returns Some(o), equal to o in every field, the signature included
C1_RoundTrip ==
    [][call'.op = "add" =>
          \A o \in PoolOps, ep \in EntryPoints, c \in ChainIds :
              add(o, ep, c) => get(db', hash(o, ep, c)) = Some(o)]_vars

\* an add has just stored an operation that carries the second signature
C1_Witness ==
    /\ call.op = "add"
    /\ \E o \in PoolOps, ep \in EntryPoints, c \in ChainIds :
          o.signature = <<2>> /\ get(db, hash(o, ep, c)) = Some(o)

\* C2: referential consistency - every operation of the sender index is
\* the operation some identifier of the primary table maps to
C2_ReferentialConsistency ==
    \A s \in Senders :
        \A o \in Range(get_all_by_sender(db, s)) :
            \E h \in AllHashes : get(db, h) = Some(o)

\* C3: index consistency - after add(o, ep, c) returned h the operations of
\* o.sender contain o; after a later successful remove(h) they no longer
\* do, and get(h) is None
C3_IndexConsistency ==
    [][/\ call'.op = "add" =>
             \A o \in PoolOps, ep \in EntryPoints, c \in ChainIds :
                 add(o, ep, c) => o \in Range(get_all_by_sender(db', o.sender))
       /\ (call' = [op |-> "remove", ret |-> "Ok"] /\ watched # None
              /\ remove(watched[2]))
             => /\ watched[1] \notin
                       Range(get_all_by_sender(db', watched[1].sender))
                /\ get(db', watched[2]) = None]_vars

\* the tables t with the entries of identifier h gone from all three
RemovedEverywhere(t, h) ==
    LET o == get(t, h)[1]
    IN  [UserOperationDB |-> {e \in t.UserOperationDB : e[1] # h},
         SenderUserOperationDB |->
             t.SenderUserOperationDB \ {<<WrapAddress(o.sender), WrapUserOperation(o)>>},
         CodeHashDB |-> {e \in t.CodeHashDB : e[1] # h}]

\* C4: atomic removal - while remove runs, after it returned and after a
\* failure or a crash at any statement, the committed tables are those from
\* before the call or those with all three deletions applied, and after a
\* failure those from before the call
C4_AtomicRemoval ==
    call.op = "remove" =>
        /\ \/ db = pre
           \/ \E h \in SignedHashes :
                 get(pre, h) # None /\ db = RemovedEverywhere(pre, h)
        /\ call.ret = "DBInternalError" => db = pre

\* a remove has deleted from all three tables in its transaction and has
\* not committed yet
C4_Witness ==
    /\ call = [op |-> "remove", ret |-> "Running"]
    /\ pc = 5
    /\ db = pre
    /\ tx.view.UserOperationDB # db.UserOperationDB
    /\ tx.view.SenderUserOperationDB # db.SenderUserOperationDB
    /\ tx.view.CodeHashDB # db.CodeHashDB

\* C5: remove of an identifier that the primary table does not hold returns
\* NotFound and leaves the three tables as they were
C5_RemoveAbsent ==
    (call.op = "remove" /\ get(pre, args.hash) = None)
        => call.ret = "NotFound" /\ db = pre

\* a remove has just returned NotFound for an identifier that has no
\* operation but owns code hashes, while other operations are stored
C5_Witness ==
    /\ call = [op |-> "remove", ret |-> "NotFound"]
    /\ db.UserOperationDB # {}
    /\ get(pre, args.hash) = None
    /\ has_code_hashes(pre, args.hash)

\* C6: code-hash replace semantics - after set_code_hashes(h, B), whatever
\* an earlier set_code_hashes(h, A) stored, get_code_hashes(h) holds exactly
\* the records of B
C6_ReplaceSemantics ==
    call.op = "set_code_hashes"
        => Range(get_code_hashes(db, args.hash)) = Range(args.code_hashes)

\* a set_code_hashes has just replaced records of h by others: some that h
\* owned before are gone and some remain or are new
C6_Witness ==
    /\ call.op = "set_code_hashes"
    /\ args.code_hashes # <<>>
    /\ Range(get_code_hashes(pre, args.hash)) \ Range(args.code_hashes) # {}

\* C7: sort order - adjacent operations of get_sorted() do not increase in
\* max_priority_fee_per_gas and, at equal fee, do not decrease in nonce
C7_SortOrder ==
    LET s == get_sorted(db)
    IN  \A i \in 1..(Len(s) - 1) :
           /\ s[i].max_priority_fee_per_gas >= s[i + 1].max_priority_fee_per_gas
           /\ s[i].max_priority_fee_per_gas = s[i + 1].max_priority_fee_per_gas
                  => s[i].nonce <= s[i + 1].nonce

\* three or more stored operations with a fee tie and a fee difference,
\* which the scan of the primary table does not return in sorted order
C7_Witness ==
    LET s == get_sorted(db)
    IN  /\ Len(s) >= 3
        /\ s # get_all(db)
        /\ \E i \in 1..(Len(s) - 1) :
              s[i].max_priority_fee_per_gas = s[i + 1].max_priority_fee_per_gas
        /\ \E i \in 1..(Len(s) - 1) :
              s[i].max_priority_fee_per_gas > s[i + 1].max_priority_fee_per_gas

\* C8: clear empties the store - after clear() get_all() is empty, get(h) is
\* None, get_all_by_sender(s) is empty, get_code_hashes(h) is empty and
\* has_code_hashes(h) is false, for every identifier h and sender s
C8_ClearEmpties ==
    call.op = "clear" =>
        /\ get_all(db) = <<>>
        /\ \A s \in Senders : get_all_by_sender(db, s) = <<>>
        /\ \A h \in AllHashes :
              /\ get(db, h) = None
              /\ get_code_hashes(db, h) = <<>>
              /\ ~has_code_hashes(db, h)

\* C9: one operation per identifier - the primary table holds at most one
\* operation per identifier, and add of an operation whose identifier is
\* already present succeeds and leaves get(h) the operation added last
C9_OnePerIdentifier ==
    /\ \A e \in db.UserOperationDB, f \in db.UserOperationDB :
          e[1] = f[1] => e = f
    /\ Len(get_all(db)) = Cardinality({e[1] : e \in db.UserOperationDB})
    /\ (call.op = "add" /\ get(pre, args.hash) # None)
          => call.ret = "Ok" /\ get(db, args.hash) = args.uo

\* an add has just replaced the operation of an identifier by another one
C9_Witness ==
    /\ call = [op |-> "add", ret |-> "Ok"]
    /\ get(pre, args.hash) # None
    /\ get(pre, args.hash) # args.uo
    /\ get(db, args.hash) = args.uo

\* C10: get_number_by_sender(s) is the length of get_all_by_sender(s), for
\* every sender s, with or without entries
C10_NumberBySender ==
    \A s \in Senders \cup {2} :
        get_number_by_sender(db, s) = Len(get_all_by_sender(db, s))

\* both senders have entries, one of them two
C10_Witness ==
    /\ get_number_by_sender(db, 0) = 2
    /\ get_number_by_sender(db, 1) = 1
    /\ get_number_by_sender(db, 2) = 0

\* the operation with its signature blanked
Unsigned(o) == [o EXCEPT !.signature = <<>>]

\* C11: hash determinism and signature insensitivity - operations that
\* agree on every field except the signature have the same identifier
\* under the same entry point and chain id
C11_SignatureInsensitive ==
    codec.hash # None =>
        \A o2 \in HashOps :
            Unsigned(o2) = Unsigned(codec.uo[1])
                => hash(o2, codec.entry_point, codec.chain_id) = codec.hash[1]

\* the identifier of an operation with a two-byte signature and non-empty
\* byte fields has been computed
C11_Witness ==
    /\ codec.hash # None
    /\ codec.uo[1].signature = <<1, 2>>
    /\ codec.uo[1].call_data # <<>>

\* C12: identifier derivation - hash(o, ep, c) is the digest of the digest
\* of pack_for_signature(o) followed by the word of ep and the word of c,
\* in that order; with a collision-free digest, inputs that differ in the
\* entry point, the chain id or a field other than the signature have
\* different identifiers
C12_Derivation ==
    codec.hash # None =>
        /\ codec.hash[1] =
               keccak256(keccak256(pack_for_signature(codec.uo[1]))
                         \o <<codec.entry_point>> \o <<codec.chain_id>>)
        /\ \A o2 \in HashOps, ep2 \in EntryPoints, c2 \in HashChainIds :
               hash(o2, ep2, c2) = codec.hash[1]
                   => /\ ep2 = codec.entry_point
                      /\ c2 = codec.chain_id
                      /\ Unsigned(o2) = Unsigned(codec.uo[1])

\* the identifier has been computed under an entry point and a chain id
\* whose words differ, so that their order shows in the identifier
C12_Witness ==
    /\ codec.hash # None
    /\ codec.entry_point = 1
    /\ codec.chain_id = 2
    /\ codec.uo[1].init_code # codec.uo[1].call_data

\* the committed tables after the adds of the threads in the order q
RECURSIVE SerialAdds(_, _)
SerialAdds(t, q) ==
    IF q = <<>> THEN t
    ELSE SerialAdds(RunTx(t, add_txn(conc[q[1]].uo[1], conc[q[1]].entry_point, 1)),
                    Tail(q))

\* C13: concurrent adds of different operations - their write transactions
\* do not overlap, the final tables are those of some serial order of the
\* two, and no committed state that a reader can see holds an added
\* operation in the primary table without its sender-index entry or in the
\* sender index without its primary entry
C13_ConcurrentAdds ==
    /\ \A t \in Threads, u \in Threads :
          (conc[t].pc > 0 /\ conc[u].pc > 0) => t = u
    /\ (\A t \in Threads : conc[t].ret = "Ok")
          => db \in {SerialAdds(EmptyTables, <<1, 2>>),
                     SerialAdds(EmptyTables, <<2, 1>>)}
    /\ \A t \in Threads :
          conc[t].uo # None =>
              LET o == conc[t].uo[1]
              IN  (\E h \in PoolHashes : get(db, h) = Some(o))
                      <=> o \in Range(get_all_by_sender(db, o.sender))

\* C14: failure atomicity of add and set_code_hashes - when the begin of
\* the transaction or any statement of the body (for add: primary put,
\* sender-index put, commit; for set_code_hashes: lookup, delete, any put,
\* commit) fails, the call returns the backend error and the three tables
\* are as they were before the call
C14_FailureAtomicity ==
    (call.op \in {"add", "set_code_hashes"} /\ txlog.failed)
        => /\ call.ret = "DBInternalError"
           /\ pc = 0
           /\ db = pre

\* an add on a store that holds entries has failed after a put had changed
\* its transaction's view
C14_Witness ==
    /\ call = [op |-> "add", ret |-> "DBInternalError"]
    /\ txlog.failed
    /\ txlog.wrote
    /\ db = pre
    /\ db.CodeHashDB # {}


\* C15: write-path propagation - a backend failure during add,
\* set_code_hashes, remove or clear is reported to the caller as an
\* explicit error result, and the operation is attempted once (no retry)
C15_WritePropagation ==
    (call.op \in Mutators /\ txlog.failed)
        => /\ call.ret = "DBInternalError"
           /\ pc = 0
           /\ Len(txlog.opened) <= 1

\* C15 as the code has it: a backend failure during add, set_code_hashes
\* or remove is returned to the caller as the backend error; during clear,
\* which has no result, it is a panic; the call ends there, having opened
\* no second transaction
C15_WritePropagationOrPanic ==
    (call.op \in Mutators /\ txlog.failed)
        => /\ call.ret = IF call.op = "clear" THEN "Panic" ELSE "DBInternalError"
           /\ pc = 0
           /\ Len(txlog.opened) <= 1

\* a clear of a store that holds operations has failed after it had
\* cleared a table in its transaction
C15_Witness ==
    /\ call = [op |-> "clear", ret |-> "Panic"]
    /\ txlog.failed
    /\ txlog.wrote
    /\ txlog.opened = <<"RW">>
    /\ db = pre
    /\ db.UserOperationDB # {}

\* C16: read-path degradation - when the begin of the transaction, the
\* creation of the cursor, a read step or the commit fails,
\* get_all_by_sender, get_all and get_code_hashes return an empty sequence
\* and get_number_by_sender returns 0, whereas get, has_code_hashes and
\* get_sorted return the backend error
C16_ReadDegradation ==
    (call.op \in Lookups /\ txlog.failed /\ pc = 0)
        => /\ call.op \in {"get_all_by_sender", "get_all", "get_code_hashes"}
                 => call.ret = "Ok" /\ read.seq = <<>>
           /\ call.op = "get_number_by_sender"
                 => call.ret = "Ok" /\ read.num = 0
           /\ call.op \in {"get", "has_code_hashes", "get_sorted"}
                 => call.ret = "DBInternalError"

\* C17: create_tables is idempotent - on an environment in which the
\* three tables exist it succeeds and leaves the contents of all three
\* tables as they were
C17_CreateTablesIdempotent ==
    (call.op = "create_tables" /\ DOMAIN pre = DOMAIN TABLES)
        => /\ call.ret = "Ok"
           /\ DOMAIN db = DOMAIN TABLES
           /\ \A table \in DOMAIN TABLES : db[table] = pre[table]

\* create_tables has just run on an environment whose three tables all
\* hold entries
C17_Witness ==
    /\ call.op = "create_tables"
    /\ DOMAIN pre = DOMAIN TABLES
    /\ \A table \in DOMAIN TABLES : pre[table] # {}

\* C19: transaction discipline - every interface operation opens exactly
\* one transaction of its own, read-only for a lookup and read-write for a
\* mutation, and has committed it when it returns without a failure
C19_TransactionDiscipline ==
    (pc = 0 /\ call.op \in Mutators \cup Lookups /\ ~txlog.failed
        /\ call.ret = "Ok")
        => /\ txlog.opened = <<IF call.op \in Lookups THEN "RO" ELSE "RW">>
           /\ txlog.commits = 1

\* identifier h owns no code hashes in the tables t
NoCodeHashes(t, h) == get_code_hashes(t, h) = <<>> /\ ~has_code_hashes(t, h)

\* C20: code-hash lifecycle - after remove(h) succeeded get_code_hashes(h)
\* is empty and has_code_hashes(h) is false, whatever set_code_hashes(h, .)
\* stored before, and an identifier without code hashes stays without them
\* through every call that is not a set_code_hashes(h, .) with a non-empty
\* sequence
C20_CodeHashLifecycle ==
    /\ call = [op |-> "remove", ret |-> "Ok"] => NoCodeHashes(db, args.hash)
    /\ \A h \in SignedHashes :
          (/\ NoCodeHashes(pre, h)
           /\ ~(call.op = "set_code_hashes" /\ args.hash = h
                   /\ args.code_hashes # <<>>))
              => NoCodeHashes(db, h)

\* a remove has just succeeded for an identifier that owned two code
\* hashes, while another identifier keeps its own
C20_Witness ==
    /\ call = [op |-> "remove", ret |-> "Ok"]
    /\ Len(get_code_hashes(pre, args.hash)) = 2
    /\ NoCodeHashes(db, args.hash)
    /\ db.CodeHashDB # {}

\* how many times x occurs in the sequence q
Count(q, x) == Cardinality({i \in 1..Len(q) : q[i] = x})

\* C21: get_sorted() returns the complete stored set - it is a permutation
\* of get_all(): the same operations with the same multiplicities, none
\* dropped or duplicated by the ordering pass
C21_SortedIsPermutation ==
    LET sorted == get_sorted(db)
        all == get_all(db)
    IN  /\ Len(sorted) = Len(all)
        /\ \A o \in Range(all) \cup Range(sorted) :
              Count(sorted, o) = Count(all, o)

\* three or more operations are stored, one of them under two identifiers
\* and two that compare equal in the ordering pass, and the pass has moved
\* some of them
C21_Witness ==
    LET sorted == get_sorted(db)
        all == get_all(db)
    IN  /\ Len(all) >= 3
        /\ sorted # all
        /\ \E o \in Range(all) : Count(all, o) = 2
        /\ \E i \in 1..Len(all), j \in 1..Len(all) :
              /\ i # j
              /\ ~sort_cmp_less(all[i], all[j])
              /\ ~sort_cmp_less(all[j], all[i])

\* the value of the 32-byte word that begins after the first at bytes of p
\* (-1 when it has a byte set above the low four)
WordAt(p, at) ==
    IF \E i \in 1..28 : p[at + i] # 0 THEN -1
    ELSE ((p[at + 29] * 256 + p[at + 30]) * 256 + p[at + 31]) * 256 + p[at + 32]

\* 32 * ceil(n / 32)
Padded(n) == ((n + 31) \div 32) * 32

\* at offset at of p lies the payload of b: the length word, the bytes of
\* b, zeros up to the next multiple of 32
PayloadAt(p, at, b) ==
    /\ WordAt(p, at) = Len(b)
    /\ SubSeq(p, at + 33, at + 32 + Len(b)) = b
    /\ \A i \in (at + 33 + Len(b))..(at + 32 + Padded(Len(b))) : p[i] = 0

\* C22: full-encoding layout - pack(o) is 11 head words of 32 bytes in
\* declared field order, the words of init_code, call_data,
\* paymaster_and_data and signature holding the byte offset of the field's
\* payload from the start; the four payloads follow contiguously in field
\* order, each a length word and the bytes right-padded with zeros to a
\* multiple of 32; the first offset is 352 and the total length is 352 plus
\* the sum over the four fields of 32 + 32 * ceil(len / 32)
C22_PackLayout ==
    codec.packed # None =>
        LET o == codec.uo[1]
            p == codec.packed[1]
            off1 == WordAt(p, 64)
            off2 == WordAt(p, 96)
            off3 == WordAt(p, 288)
            off4 == WordAt(p, 320)
        IN  /\ WordAt(p, 0) = o.sender
            /\ WordAt(p, 32) = o.nonce
            /\ WordAt(p, 128) = o.call_gas_limit
            /\ WordAt(p, 160) = o.verification_gas_limit
            /\ WordAt(p, 192) = o.pre_verification_gas
            /\ WordAt(p, 224) = o.max_fee_per_gas
            /\ WordAt(p, 256) = o.max_priority_fee_per_gas
            /\ off1 = 352
            /\ off2 = off1 + 32 + Padded(Len(o.init_code))
            /\ off3 = off2 + 32 + Padded(Len(o.call_data))
            /\ off4 = off3 + 32 + Padded(Len(o.paymaster_and_data))
            /\ Len(p) = off4 + 32 + Padded(Len(o.signature))
            /\ Len(p) = 352 + (32 + Padded(Len(o.init_code)))
                            + (32 + Padded(Len(o.call_data)))
                            + (32 + Padded(Len(o.paymaster_and_data)))
                            + (32 + Padded(Len(o.signature)))
            /\ PayloadAt(p, off1, o.init_code)
            /\ PayloadAt(p, off2, o.call_data)
            /\ PayloadAt(p, off3, o.paymaster_and_data)
            /\ PayloadAt(p, off4, o.signature)

\* an operation whose byte fields are 1, 33, 32 and 65 bytes long has been
\* packed: payloads with and without padding, 704 bytes in all
C22_Witness ==
    /\ codec.packed # None
    /\ Len(codec.uo[1].init_code) = 1
    /\ Len(codec.uo[1].call_data) = 33
    /\ Len(codec.uo[1].paymaster_and_data) = 32
    /\ Len(codec.uo[1].signature) = 65
    /\ Len(codec.packed[1]) = 704

\* the sum of get_number_by_sender over the senders S
RECURSIVE NumberBySenders(_, _)
NumberBySenders(t, S) ==
    IF S = {} THEN 0
    ELSE LET sender == CHOOSE x \in S : TRUE
         IN  get_number_by_sender(t, sender) + NumberBySenders(t, S \ {sender})

\* C23: primary-to-sender coverage - in every reachable state every
\* operation o stored in the primary table is returned by
\* get_all_by_sender(o.sender), and get_all() has as many operations as
\* the sum of get_number_by_sender(s) over all senders s
C23_PrimaryToSenderCoverage ==
    /\ \A o \in Range(get_all(db)) : o \in Range(get_all_by_sender(db, o.sender))
    /\ Len(get_all(db)) = NumberBySenders(db, Senders)

\* C24: no orphaned code hashes - in every reachable state every identifier
\* h for which has_code_hashes(h) is true is present in the primary table
\* (get(h) is Some)
C24_NoOrphanedCodeHashes ==
    \A h \in AllHashes : has_code_hashes(db, h) => get(db, h) # None

\* C25: has_code_hashes agrees with get_code_hashes - in every reachable
\* state and for every identifier h, has_code_hashes(h) is true exactly
\* when get_code_hashes(h) is non-empty; in particular it is false after
\* set_code_hashes(h, empty sequence)
C25_HasAgreesWithGet ==
    /\ \A h \in AllHashes :
          has_code_hashes(db, h) <=> get_code_hashes(db, h) # <<>>
    /\ (call.op = "set_code_hashes" /\ args.code_hashes = <<>>)
          => ~has_code_hashes(db, args.hash)

\* a set_code_hashes with the empty sequence has just run on an identifier
\* that is stored and owned code hashes, while another identifier has some
C25_Witness ==
    /\ call.op = "set_code_hashes"
    /\ args.code_hashes = <<>>
    /\ has_code_hashes(pre, args.hash)
    /\ get(db, args.hash) # None
    /\ \E h \in SignedHashes : Len(get_code_hashes(db, h)) = 2

\* the code-hash entries of the tables t under identifiers other than h
OtherCodeHashes(t, h) ==
    {e \in t.CodeHashDB : e[1] # WrapUserOperationHash(h)}

\* C26: frame of set_code_hashes - set_code_hashes(h, R) succeeds whether
\* or not h is present in the primary table and changes only the code-hash
\* records of h: the primary table, the sender index and the code-hash
\* records of every other identifier are as before
C26_SetCodeHashesFrame ==
    call.op = "set_code_hashes" =>
        /\ call.ret = "Ok"
        /\ db.UserOperationDB = pre.UserOperationDB
        /\ db.SenderUserOperationDB = pre.SenderUserOperationDB
        /\ OtherCodeHashes(db, args.hash) = OtherCodeHashes(pre, args.hash)

\* a set_code_hashes has just changed the records of an identifier that
\* is not in the primary table, while operations are stored and another
\* identifier owns code hashes
C26_Witness ==
    /\ call.op = "set_code_hashes"
    /\ get(pre, args.hash) = None
    /\ db.CodeHashDB # pre.CodeHashDB
    /\ db.UserOperationDB # {}
    /\ OtherCodeHashes(db, args.hash) # {}

====
